---- MODULE Spec2Model ----
(***************************************************************************)
(* The streaming censor of rustrict (src/src/lib.rs): Censor::next and the *)
(* operations around it, as a state machine.                               *)
(*                                                                         *)
(* Characters are one-character strings.  A Type (bitflags over u32) is    *)
(* the set of the indices of its set bits, so `&` is \cap and `|` is \cup. *)
(* A trie node is the path of characters leading to it from the root.      *)
(***************************************************************************)
EXTENDS Integers, Sequences, FiniteSets, TLC

VARIABLES
    text,       \* the raw input handed to Censor::new
    censor,     \* the Censor struct
    out,        \* the characters next() has returned so far (censor()'s `s`)
    committed,  \* history: the pending records that were committed
    cancelled,  \* history: the pending records that were cancelled
    streamed,   \* history: how many characters were emitted inside the matching loop
    safe_hit,   \* history: the position of the latest step that reached a SAFE terminal with start 0 and spaces 0
    reordered,  \* history: the two Censors iterated their match sets in different orders
    pass,       \* 1: censoring text; 2: censoring the output of pass 1
    first_out,  \* the output of pass 1 (during pass 2)
    twin,       \* a second fresh Censor over the same text (SpecTwin)
    twin_out,   \* what the second Censor has returned so far
    api,        \* the caller: the method of Censor it is in, whether one panicked, what returned
    probe,      \* a Censor whose fields are given, and what the scoring returns for it
    added       \* the words that add_word put into TREE before the Censor was made

vars == <<text, censor, out, committed, cancelled, streamed, safe_hit, reordered, pass, first_out, twin, twin_out,
          api, probe, added>>

-----------------------------------------------------------------------------
(* Bounds *)

\* longest raw input
MaxLen == 3

-----------------------------------------------------------------------------
(* Program constants *)

WEIGHT_COUNT == 5
WEIGHT_BITS == 3
SEVERE_WEIGHT == 3
MODERATE_WEIGHT == 2
MILD_WEIGHT == 1
\* u8::MAX, where the counters and Match::spaces saturate
U8_MAX == 255
\* usize::MAX, the sentinel of last_pos, Match::end and safety_end.  Only compared
\* and min'ed in the operations modelled here; any value above every position
\* behaves alike, so the model keeps it inside TLC's integers.
USIZE_MAX == 2147483647

\* Option::None for an index and for a character
NoIndex == -1
NoChar == "None"
\* `0 as char`, the sentinel of Match::last
NUL == "NUL"

-----------------------------------------------------------------------------
(* Type *)

PROFANE   == {0, 1, 2}
OFFENSIVE == {3, 4, 5}
SEXUAL    == {6, 7, 8}
MEAN      == {9, 10, 11}
EVASIVE   == {12, 13, 14}
SPAM      == {15, 16, 17}
SAFE      == {18}
MILD      == 0..17
MODERATE  == {1, 2, 4, 5, 7, 8, 10, 11, 13, 14, 16, 17}
SEVERE    == {2, 5, 8, 11, 14, 17}
INAPPROPRIATE == PROFANE \cup OFFENSIVE \cup SEXUAL \cup (MEAN \cap SEVERE)
ANY       == PROFANE \cup OFFENSIVE \cup SEXUAL \cup MEAN \cup EVASIVE \cup SPAM
NONE      == {}

is(self, threshold) == (self \cap threshold) # NONE
isnt(self, threshold) == (self \cap threshold) = NONE

\* mutant of WeightSeverity: the severities as the nested thresholds
WeightSeverity_as_threshold(weight) ==
    IF weight >= SEVERE_WEIGHT THEN {2}
    ELSE IF weight = MODERATE_WEIGHT THEN {1, 2}
    ELSE IF weight = MILD_WEIGHT THEN {0, 1, 2}
    ELSE {}

\* `severity << (i * WEIGHT_BITS)` for the weight at 0-based index i
WeightSeverity(weight) ==
    IF weight >= SEVERE_WEIGHT THEN {2}
    ELSE IF weight = MODERATE_WEIGHT THEN {1}
    ELSE IF weight = MILD_WEIGHT THEN {0}
    ELSE {}

from_weights(weights) ==
    UNION { { b + (i - 1) * WEIGHT_BITS : b \in WeightSeverity(weights[i]) } : i \in 1..WEIGHT_COUNT }

\* the bits of a 3-bit field are a subset of 0..2
bits_to_weight(bits) ==
    IF bits = {} THEN 0
    ELSE IF 0 \in bits THEN MILD_WEIGHT
    ELSE IF 1 \in bits THEN MODERATE_WEIGHT
    ELSE SEVERE_WEIGHT

\* `(self.bits >> i) & 0b111` for the field at 0-based index i
FieldBits(self, i) == { b \in 0..(WEIGHT_BITS - 1) : b + i * WEIGHT_BITS \in self }

to_weights(self) == [i \in 1..WEIGHT_COUNT |-> bits_to_weight(FieldBits(self, i - 1))]

TypeDefault == INAPPROPRIATE

-----------------------------------------------------------------------------
(* Characters: the classes, case mapping and normalisation of the external *)
(* Unicode crates, on the characters of the model                          *)

Min(S) == CHOOSE x \in S : \A y \in S : x <= y

\* U+202E RIGHT-TO-LEFT OVERRIDE, U+0301 COMBINING ACUTE ACCENT, U+00E1 a with acute
RLO == "U+202E"
COMBINING_ACUTE == "U+0301"
A_ACUTE == "U+00E1"
\* U+03A9 GREEK CAPITAL LETTER OMEGA, U+03C9 GREEK SMALL LETTER OMEGA
OMEGA == "U+03A9"
SMALL_OMEGA == "U+03C9"

is_punctuation(c) == c \in {"*", "!", "@", "'", ".", "?", ";", "#", "$"}
is_separator(c) == c = " "
is_other(c) == c = RLO
is_mark_nonspacing(c) == c = COMBINING_ACUTE
is_ascii_uppercase(c) == c \in {"A", "B", "I", "X"}
is_uppercase(c) == c \in {"A", "B", "I", "X", OMEGA}
is_ascii_lowercase(c) == c \in {"a", "b", "i", "s", "x"}
is_ascii_digit(c) == c \in {"4"}

to_lowercase(c) ==
    CASE c = "A" -> "a"
      [] c = "B" -> "b"
      [] c = "I" -> "i"
      [] c = "X" -> "x"
      [] c = OMEGA -> SMALL_OMEGA
      [] OTHER -> c

\* canonical decomposition of one character
nfd_char(c) == IF c = A_ACUTE THEN <<"a", COMBINING_ACUTE>> ELSE <<c>>

\* the decompositions of the characters of s in order, by halves
RECURSIVE nfd(_)
nfd(s) ==
    IF s = <<>> THEN <<>>
    ELSE IF Len(s) = 1 THEN nfd_char(s[1])
    ELSE nfd(SubSeq(s, 1, Len(s) \div 2)) \o nfd(SubSeq(s, Len(s) \div 2 + 1, Len(s)))

\* canonical composition
nfc(s) ==
    LET composes(i) == i < Len(s) /\ s[i] = "a" /\ s[i + 1] = COMBINING_ACUTE
        composed == [i \in 1..Len(s) |->
                        [c |-> IF composes(i) THEN A_ACUTE ELSE s[i],
                         kept |-> ~(i > 1 /\ composes(i - 1))]]
        kept == SelectSeq(composed, LAMBDA e : e.kept)
    IN  [i \in 1..Len(kept) |-> kept[i].c]

-----------------------------------------------------------------------------
(* The data files compiled into the crate, as far as the model needs them  *)

\* banned_chars.txt
BANNED == {RLO}

\* replacements.csv: a character and the characters it may stand for
REPLACEMENTS ==
    [c \in {"@", "4", "!", "$"} |-> CASE c = "!" -> <<"i">> [] c = "$" -> <<"s">> [] OTHER -> <<"a">>]

\* profanity.csv (phrase and five weights), safe.txt, false_positives.txt: a
\* flagged word, safe phrases with and without the flagged word inside, a false
\* positive ending with the flagged word, one going on after it and one
\* overlapping its end
ProfanityCsv == { [phrase |-> <<"a", "i">>, weights |-> <<2, 0, 0, 0, 0>>] }
SafeTxt == { <<"a", "a">>, <<"a", "a", "i">> }
FalsePositivesTxt == { <<"b", "a", "i">>, <<"a", "i", "b">>, <<"i", "a">> }

\* the (phrase, Type) pairs collected into TREE
TreeCollected ==
    { [phrase |-> l.phrase, typ |-> from_weights(l.weights)] : l \in ProfanityCsv }
    \cup { [phrase |-> l, typ |-> SAFE] : l \in SafeTxt }
    \cup { [phrase |-> l, typ |-> NONE] : l \in FalsePositivesTxt }

\* TREE after the calls of add_word
TreeEntries == TreeCollected \cup added

IsPrefix(p, s) == Len(p) <= Len(s) /\ SubSeq(s, 1, Len(p)) = p

\* Tree: the nodes are the prefixes of the phrases; Root is the empty path
Root == <<>>
NodeExists(n) == \E e \in TreeEntries : IsPrefix(n, e.phrase)
NodeWord(n) == \E e \in TreeEntries : e.phrase = n
NodeTyp(n) == UNION { e.typ : e \in { x \in TreeEntries : x.phrase = n } }
HasChild(n, c) == NodeExists(Append(n, c))
Child(n, c) == Append(n, c)

-----------------------------------------------------------------------------
(* Match (mtch.rs) *)

Match(node, start, end, last, space_before, space_after, spaces) ==
    [node |-> node, start |-> start, end |-> end, last |-> last,
     space_before |-> space_before, space_after |-> space_after, spaces |-> spaces]

\* what Hash and Eq of Match look at
MatchKey(m) == <<m.node, m.start, m.last, m.spaces, m.space_before>>

combine(self, other) ==
    [self EXCEPT !.spaces = IF other.spaces < self.spaces THEN other.spaces ELSE self.spaces,
                 !.space_before = self.space_before \/ other.space_before,
                 !.space_after = self.space_after \/ other.space_after,
                 !.end = IF self.end = USIZE_MAX THEN other.end ELSE self.end]

\* mutant of saturating_add: u8::wrapping_add
wrapping_add(x, n) == (x + n) % (U8_MAX + 1)

\* u8::saturating_add
saturating_add(x, n) == IF x + n > U8_MAX THEN U8_MAX ELSE x + n

\* one severity level down per tolerated gap, inside each 3-bit field
ScaleBySpaces(typ, spaces) ==
    { b - spaces : b \in { x \in typ \cap ANY : (x % WEIGHT_BITS) >= spaces } }

-----------------------------------------------------------------------------
(* BufferProxyIterator (buffer_proxy_iterator.rs): iter is what the        *)
(* canonicalising iterator has still to produce, buffer the characters     *)
(* produced and not yet spied, buffer_start_position the index of the      *)
(* first of them                                                           *)

BufferProxyIterator(iter) == [iter |-> iter, buffer |-> <<>>, buffer_start_position |-> 0]

\* the index of the last character read, None before the first
index(b) ==
    IF b.buffer_start_position + Len(b.buffer) = 0 THEN NoIndex
    ELSE b.buffer_start_position + Len(b.buffer) - 1

\* Iterator::next of the proxy: the character is handed on and kept for spying
buffer_next(b) == [b EXCEPT !.iter = Tail(@), !.buffer = Append(@, Head(b.iter))]

spy_next_index(b) == IF b.buffer = <<>> THEN NoIndex ELSE b.buffer_start_position

spy_next(b) == [b EXCEPT !.buffer = Tail(@), !.buffer_start_position = @ + 1]

\* overwrite the positions lo..=hi that are still buffered
buffer_censor(b, lo, hi, replacement) ==
    [b EXCEPT !.buffer =
        [i \in 1..Len(b.buffer) |->
            IF lo <= b.buffer_start_position + i - 1 /\ b.buffer_start_position + i - 1 <= hi
            THEN replacement ELSE b.buffer[i]]]

\* mutant of commit: the range is censored, the type is not recorded
commit_censors_only(m, typ, spy, censor_threshold, censor_first_character_threshold, censor_replacement) ==
    [typ |-> typ,
     buffer |->
        IF is(NodeTyp(m.node), censor_threshold)
        THEN buffer_censor(spy,
                 m.start + (IF is(NodeTyp(m.node), censor_first_character_threshold) THEN 0 ELSE 1),
                 m.end, censor_replacement)
        ELSE spy]

\* Match::commit
commit(m, typ, spy, censor_threshold, censor_first_character_threshold, censor_replacement) ==
    [typ |-> typ \cup ScaleBySpaces(NodeTyp(m.node), m.spaces),
     buffer |->
        IF is(NodeTyp(m.node), censor_threshold)
        THEN buffer_censor(spy,
                 m.start + (IF is(NodeTyp(m.node), censor_first_character_threshold) THEN 0 ELSE 1),
                 m.end, censor_replacement)
        ELSE spy]

-----------------------------------------------------------------------------
(* Censor: construction and options *)

\* mutant of isnt_mark_nonspacing_or_banned: banned characters stay
isnt_mark_nonspacing(c) == ~is_mark_nonspacing(c)

isnt_mark_nonspacing_or_banned(c) == ~(is_mark_nonspacing(c) \/ c \in BANNED)

\* text.nfd().filter(isnt_mark_nonspacing_or_banned).nfc()
Canonical(t) == nfc(SelectSeq(nfd(t), isnt_mark_nonspacing_or_banned))

\* mutant of buffers_from: the buffer holds the lower-cased characters
buffers_from_lowercased(t) ==
    BufferProxyIterator([i \in 1..Len(Canonical(t)) |-> to_lowercase(Canonical(t)[i])])

buffers_from(t) == BufferProxyIterator(Canonical(t))

new(t) ==
    [ignore_false_positives |-> FALSE,
     ignore_self_censoring |-> FALSE,
     censor_first_character_threshold |-> OFFENSIVE \cap SEVERE,
     censor_replacement |-> "*",
     censor_threshold |-> TypeDefault,
     separate |-> TRUE,
     typ |-> NONE,
     uppercase |-> 0,
     repetitions |-> 0,
     last |-> NoChar,
     gibberish |-> 0,
     replacements |-> 0,
     self_censoring |-> 0,
     safe |-> FALSE,
     space_appended |-> FALSE,
     done |-> FALSE,
     last_pos |-> USIZE_MAX,
     matches |-> {},
     matches_tmp |-> {},
     pending_commit |-> <<>>,
     buffer |-> buffers_from(t)]

with_censor_threshold(self, censor_threshold) ==
    [self EXCEPT !.censor_threshold = censor_threshold]
with_ignore_false_positives(self, ignore_false_positives) ==
    [self EXCEPT !.ignore_false_positives = ignore_false_positives]
with_ignore_self_censoring(self, ignore_self_censoring) ==
    [self EXCEPT !.ignore_self_censoring = ignore_self_censoring]
with_censor_first_character_threshold(self, censor_first_character_threshold) ==
    [self EXCEPT !.censor_first_character_threshold = censor_first_character_threshold]
with_censor_replacement(self, censor_replacement) ==
    [self EXCEPT !.censor_replacement = censor_replacement]

-----------------------------------------------------------------------------
(* Censor::next: one iteration of its `while let` loop, in source order    *)

\* mutant of clears_safe: a real space keeps the flag as ! . ? do
clears_safe_except_space(space_appended, raw_c) ==
    ~space_appended /\ raw_c \notin {"!", ".", "?", " "}

\* a previous notion of safety is dropped by a real character other than ! . ?
clears_safe(space_appended, raw_c) ==
    ~space_appended /\ raw_c # "!" /\ raw_c # "." /\ raw_c # "?"

skippable_of(raw_c) == is_punctuation(raw_c) \/ is_separator(raw_c) \/ is_other(raw_c)

has_replacement(raw_c) == raw_c \in DOMAIN REPLACEMENTS

\* replacement.unwrap_or(raw_c).chars()
replacement_chars(raw_c) == IF has_replacement(raw_c) THEN REPLACEMENTS[raw_c] ELSE <<raw_c>>

\* censor replacement found but not at the beginning of a word
counts_self_censoring(self, raw_c) ==
    (~self.separate \/ self.last = self.censor_replacement) /\ raw_c = self.censor_replacement

is_gibberish(c) == c \in {"a", "s", "d", "f", "j", "k", "l", ";"}

counts_repetition(last, raw_c) == last # NoChar /\ raw_c = last

counts_replacement(last, raw_c) ==
    /\ last # NoChar
    /\ has_replacement(raw_c)
    /\ ~is_ascii_lowercase(raw_c)
    /\ ~(is_ascii_digit(raw_c) /\ is_ascii_digit(last))

counts_gibberish(last, raw_c) == last # NoChar /\ is_gibberish(raw_c) /\ is_gibberish(last)

\* mutant of seed: the match starts at the position after the character read
seed_after(pos, separate) == Match(Root, pos + 1, USIZE_MAX, NUL, separate, FALSE, 0)

\* the Match seeded at the root for the character read at pos
seed(pos, separate) == Match(Root, pos, USIZE_MAX, NUL, separate, FALSE, 0)

\* mutant of seeds: no match is seeded at a skippable character
seeds_unless_skippable(pos, skippable, raw_c) == pos # NoIndex /\ ~skippable

seeds(pos, skippable, raw_c) == pos # NoIndex /\ ~(skippable /\ ~has_replacement(raw_c))

\* pending records that ended on the previous character learn that a separator follows
\* mutant of mark_space_after: whether the character is skippable is not looked at
mark_space_after_whatever_follows(pending_commit, separate, last_pos) ==
    [i \in 1..Len(pending_commit) |->
        IF pending_commit[i].end = last_pos
        THEN [pending_commit[i] EXCEPT !.space_after = TRUE]
        ELSE pending_commit[i]]

mark_space_after(pending_commit, separate, last_pos) ==
    [i \in 1..Len(pending_commit) |->
        IF separate /\ pending_commit[i].end = last_pos
        THEN [pending_commit[i] EXCEPT !.space_after = TRUE]
        ELSE pending_commit[i]]

\* mutant of undo_kept: a repeated character is not tolerated
undo_kept_only_skippable(m, c, skippable, pos) ==
    skippable /\ m.start # (IF pos = NoIndex THEN 0 ELSE pos)

\* "undo remove": the match survives a skippable or repeated character
undo_kept(m, c, skippable, pos) ==
    (skippable \/ c = m.last) /\ m.start # (IF pos = NoIndex THEN 0 ELSE pos)

\* mutant of undo_m: every skippable character tolerated counts as a space
undo_m_counts_every_skippable(m, c, raw_c, separate) ==
    [m EXCEPT !.spaces = saturating_add(m.spaces, IF separate THEN 1 ELSE 0)]

undo_m(m, c, raw_c, separate) ==
    [m EXCEPT !.spaces =
        saturating_add(m.spaces, IF (c = " " \/ c # raw_c) /\ separate /\ c # "'" THEN 1 ELSE 0)]

\* the match descends to the child for c
next_m(m, c, raw_c, separate) ==
    [m EXCEPT !.node = Child(m.node, c),
              !.spaces = saturating_add(m.spaces, IF c # raw_c /\ separate /\ c # "'" THEN 1 ELSE 0),
              !.last = c]

descends(m, c) == HasChild(m.node, c)

\* next.word, for the child the match descends to
reaches_word(m, c) == descends(m, c) /\ NodeWord(Child(m.node, c))

\* mutant of sets_safe: the option is not consulted
sets_safe_whatever_the_option(nm, ignore_false_positives) ==
    /\ is(NodeTyp(nm.node), SAFE)
    /\ nm.start = 0
    /\ nm.spaces = 0

\* everything in the input until now is safe
sets_safe(nm, ignore_false_positives) ==
    /\ is(NodeTyp(nm.node), SAFE)
    /\ nm.start = 0
    /\ nm.spaces = 0
    /\ ~ignore_false_positives

pushes_pending(nm) == is(NodeTyp(nm.node), ANY)

\* mutant of drains: the spaces of the match are not looked at
drains_whatever_the_spaces(nm, ignore_false_positives) ==
    ~is(NodeTyp(nm.node), ANY) /\ ~ignore_false_positives

\* mutant of drains: only a false positive invalidates, a safe terminal does not
drains_only_false_positives(nm, ignore_false_positives) ==
    NodeTyp(nm.node) = NONE /\ nm.spaces = 0 /\ ~ignore_false_positives

\* a false positive or safe terminal invalidates the matches inside it
drains(nm, ignore_false_positives) ==
    ~is(NodeTyp(nm.node), ANY) /\ nm.spaces = 0 /\ ~ignore_false_positives

\* HashSet get / replace(combine) / insert
insert_or_combine(matches, m) ==
    IF \E e \in matches : MatchKey(e) = MatchKey(m)
    THEN LET e == CHOOSE x \in matches : MatchKey(x) = MatchKey(m)
         IN (matches \ {e}) \cup {combine(e, m)}
    ELSE matches \cup {m}

RECURSIVE insert_all(_, _)
insert_all(matches, produced) ==
    IF produced = {} THEN matches
    ELSE LET m == CHOOSE x \in produced : TRUE
         IN insert_all(insert_or_combine(matches, m), produced \ {m})

\* indices 1..Len(cs) of the characters tried in this iteration
CharsOf(cs) == { cs[i] : i \in 1..Len(cs) }

\* the matches of the next frontier: the kept and the descended ones
advance(matches_tmp, cs, raw_c, skippable, separate, pos) ==
    insert_all({},
        { undo_m(m, c, raw_c, separate) :
            <<m, c>> \in { x \in matches_tmp \X CharsOf(cs) : undo_kept(x[1], x[2], skippable, pos) } }
        \cup
        { next_m(m, c, raw_c, separate) :
            <<m, c>> \in { x \in matches_tmp \X CharsOf(cs) : descends(x[1], x[2]) } })

\* the next_m of every (match, character) that reaches a word in this iteration
terminals(matches_tmp, cs, raw_c, separate) ==
    { next_m(x[1], x[2], raw_c, separate) :
        x \in { y \in matches_tmp \X CharsOf(cs) : reaches_word(y[1], y[2]) } }

\* safety_end: the minimum start over the matches iterated (usize::MAX when none is)
safety_end_of(matches_tmp, cs) ==
    IF matches_tmp = {} \/ cs = <<>> THEN USIZE_MAX
    ELSE Min({ m.start : m \in matches_tmp })

\* mutant of drain_start_of: a draining terminal invalidates from the start of the input
drain_start_of_the_input(terms, ignore_false_positives) ==
    LET d == { nm \in terms : drains(nm, ignore_false_positives) }
    IN IF d = {} THEN NoIndex ELSE 0

\* drain_start: the minimum start over the draining terminals (None when there is none)
drain_start_of(terms, ignore_false_positives) ==
    LET d == { nm \in terms : drains(nm, ignore_false_positives) }
    IN IF d = {} THEN NoIndex ELSE Min({ nm.start : nm \in d })

\* The iteration order of the FxHashSet matches_tmp is not specified.  Only the
\* relative order of the matches that push onto pending_commit can be observed,
\* so an iteration order is given as a sequence `ord` enumerating those matches.
pushing(matches_tmp, cs, raw_c, separate) ==
    { m \in matches_tmp :
        \E c \in CharsOf(cs) : reaches_word(m, c) /\ pushes_pending(next_m(m, c, raw_c, separate)) }

Orders(S) ==
    { f \in [1..Cardinality(S) -> S] : \A i, j \in 1..Cardinality(S) : i # j => f[i] # f[j] }

\* self.pending_commit.push(Match { end: pos.unwrap(), ..next_m }) for one character c
RECURSIVE pushes_for(_, _, _, _, _)
pushes_for(ord, c, raw_c, separate, pos) ==
    IF ord = <<>> THEN <<>>
    ELSE (IF reaches_word(Head(ord), c) /\ pushes_pending(next_m(Head(ord), c, raw_c, separate))
          THEN << [next_m(Head(ord), c, raw_c, separate) EXCEPT !.end = pos] >>
          ELSE <<>>)
         \o pushes_for(Tail(ord), c, raw_c, separate, pos)

\* the outer loop over the characters tried
RECURSIVE pushes(_, _, _, _, _)
pushes(ord, cs, raw_c, separate, pos) ==
    IF cs = <<>> THEN <<>>
    ELSE pushes_for(ord, Head(cs), raw_c, separate, pos) \o pushes(ord, Tail(cs), raw_c, separate, pos)

\* mutant of retain_cancels: a record starting where the anchor starts is kept
retain_cancels_strictly_inside(pending, drain_start) ==
    drain_start # NoIndex /\ pending.start > drain_start

\* pending_commit.retain: cancelled due to a false positive
retain_cancels(pending, drain_start) == drain_start # NoIndex /\ pending.start >= drain_start

\* mutant of retain_commits: a record ending where a live match starts is committed
retain_commits_at_safety_end(pending, safety_end) == pending.end <= safety_end

\* pending_commit.retain: can pre-commit, no live match can still cancel it
retain_commits(pending, safety_end) == pending.end < safety_end

\* the retain closure over pending_commit[i..], threading typ and the buffer
RECURSIVE retain(_, _, _, _, _)
retain(self, i, drain_start, safety_end, acc) ==
    IF i > Len(self.pending_commit) THEN acc
    ELSE LET pending == self.pending_commit[i] IN
         IF retain_cancels(pending, drain_start)
         THEN retain(self, i + 1, drain_start, safety_end,
                     [acc EXCEPT !.cancelled = @ \cup {pending}])
         ELSE IF retain_commits(pending, safety_end)
         THEN LET r == commit(pending, acc.typ, acc.buffer, self.censor_threshold,
                              self.censor_first_character_threshold, self.censor_replacement)
              IN retain(self, i + 1, drain_start, safety_end,
                        [acc EXCEPT !.typ = r.typ, !.buffer = r.buffer,
                                    !.committed = @ \cup {pending}])
         ELSE retain(self, i + 1, drain_start, safety_end,
                     [acc EXCEPT !.kept = Append(@, pending)])

\* mutant of safe_until: the in-flight matches are not looked at
safe_until_without_frontier(spy_next_idx, safety_end, pending_commit) ==
    \A i \in 1..Len(pending_commit) : ~(pending_commit[i].start <= spy_next_idx)

\* mutant of safe_until: the pending records are not looked at
safe_until_without_pending(spy_next_idx, safety_end, pending_commit) ==
    spy_next_idx < safety_end

\* "Yield one character if possible": the next spied index is before every
\* in-flight match and before every pending record
safe_until(spy_next_idx, safety_end, pending_commit) ==
    /\ spy_next_idx < safety_end
    /\ \A i \in 1..Len(pending_commit) : ~(pending_commit[i].start <= spy_next_idx)

\* One iteration of the loop for the character raw_c that self.chars produced
\* (self.buffer has read it already) or for the appended space.  The result:
\* the Censor after it, the character returned (NoChar: the loop goes on), and
\* for the history the records committed and cancelled and whether a SAFE
\* terminal with start 0 and spaces 0 was reached.
loop_body(self, raw_c, ord) ==
    LET safe0 == IF clears_safe(self.space_appended, raw_c) THEN FALSE ELSE self.safe
        pos == index(self.buffer)
        skippable == skippable_of(raw_c)
        self_censoring == IF counts_self_censoring(self, raw_c)
                          THEN saturating_add(self.self_censoring, 1) ELSE self.self_censoring
        repetitions == IF counts_repetition(self.last, raw_c)
                       THEN saturating_add(self.repetitions, 1) ELSE self.repetitions
        replacements == IF counts_replacement(self.last, raw_c)
                        THEN saturating_add(self.replacements, 1) ELSE self.replacements
        gibberish == IF counts_gibberish(self.last, raw_c)
                     THEN saturating_add(self.gibberish, 1) ELSE self.gibberish
        matches_tmp == IF seeds(pos, skippable, raw_c)
                       THEN self.matches \cup {seed(pos, self.separate)}
                       ELSE self.matches
        separate == skippable
        marked == mark_space_after(self.pending_commit, separate, self.last_pos)
        cs == replacement_chars(raw_c)
        safety_end == safety_end_of(matches_tmp, cs)
        terms == terminals(matches_tmp, cs, raw_c, separate)
        safe1 == IF \E nm \in terms : sets_safe(nm, self.ignore_false_positives)
                 THEN TRUE ELSE safe0
        drain_start == drain_start_of(terms, self.ignore_false_positives)
        matches == advance(matches_tmp, cs, raw_c, skippable, separate, pos)
        last_pos == IF pos # NoIndex THEN pos ELSE self.last_pos
        pushed == marked \o pushes(ord, cs, raw_c, separate, pos)
        kept == retain([self EXCEPT !.pending_commit = pushed], 1, drain_start, safety_end,
                       [typ |-> self.typ, buffer |-> self.buffer, kept |-> <<>>,
                        committed |-> {}, cancelled |-> {}])
        spy_idx == spy_next_index(kept.buffer)
        yields == spy_idx # NoIndex /\ safe_until(spy_idx, safety_end, kept.kept)
        next == IF yields THEN Head(kept.buffer.buffer) ELSE NoChar
    IN  [self |-> [self EXCEPT
                      !.safe = safe1,
                      !.self_censoring = self_censoring,
                      !.repetitions = repetitions,
                      !.replacements = replacements,
                      !.gibberish = gibberish,
                      !.last = raw_c,
                      !.separate = separate,
                      !.matches = matches,
                      !.matches_tmp = {},
                      !.last_pos = last_pos,
                      !.typ = kept.typ,
                      !.pending_commit = kept.kept,
                      !.buffer = IF yields THEN spy_next(kept.buffer) ELSE kept.buffer,
                      !.uppercase = IF yields /\ is_ascii_uppercase(next)
                                    THEN saturating_add(self.uppercase, 1) ELSE self.uppercase],
         ret |-> next,
         committed |-> kept.committed,
         cancelled |-> kept.cancelled,
         safe_terminal |-> \E nm \in terms :
                              is(NodeTyp(nm.node), SAFE) /\ nm.start = 0 /\ nm.spaces = 0,
         terminals |-> terms,
         drain_start |-> drain_start,
         safety_end |-> safety_end,
         pushed |-> pushes(ord, cs, raw_c, separate, pos)]

\* the matches whose iteration order matters in the iteration for raw_c
ordered_matches(self, raw_c) ==
    LET pos == index(self.buffer)
        skippable == skippable_of(raw_c)
        matches_tmp == IF seeds(pos, skippable, raw_c)
                       THEN self.matches \cup {seed(pos, self.separate)}
                       ELSE self.matches
    IN pushing(matches_tmp, replacement_chars(raw_c), raw_c, skippable)

\* self.chars.next(): the buffer reads one canonical character, which is lower-cased
chars_next(self) == [self EXCEPT !.buffer = buffer_next(self.buffer)]
chars_item(self) == to_lowercase(Head(self.buffer.iter))
chars_exhausted(self) == self.buffer.iter = <<>>

\* mutant of commit_all: only the record appended first is committed
commit_all_first_only(self, i, acc) ==
    IF self.pending_commit = <<>> THEN acc
    ELSE commit(self.pending_commit[1], acc.typ, acc.buffer, self.censor_threshold,
                self.censor_first_character_threshold, self.censor_replacement)

\* after the loop: every record still pending is committed
RECURSIVE commit_all(_, _, _)
commit_all(self, i, acc) ==
    IF i > Len(self.pending_commit) THEN acc
    ELSE LET r == commit(self.pending_commit[i], acc.typ, acc.buffer, self.censor_threshold,
                         self.censor_first_character_threshold, self.censor_replacement)
         IN commit_all(self, i + 1, r)

\* mutant of flush: what is still pending is dropped, not committed
flush_drops_pending(self) ==
    LET c == IF self.buffer.buffer # <<>> THEN Head(self.buffer.buffer) ELSE NoChar
    IN  [self |-> IF c # NoChar
                  THEN [self EXCEPT !.pending_commit = <<>>,
                                    !.buffer = spy_next(self.buffer),
                                    !.uppercase = IF is_uppercase(c)
                                                  THEN saturating_add(self.uppercase, 1)
                                                  ELSE self.uppercase]
                  ELSE [self EXCEPT !.pending_commit = <<>>, !.done = TRUE],
         ret |-> c,
         committed |-> {}]

\* the part of next() after the loop: commit what is pending, then return one
\* buffered character, or set done and return None
flush(self) ==
    LET r == commit_all(self, 1, [typ |-> self.typ, buffer |-> self.buffer])
        c == IF r.buffer.buffer # <<>> THEN Head(r.buffer.buffer) ELSE NoChar
    IN  [self |-> IF c # NoChar
                  THEN [self EXCEPT !.typ = r.typ, !.pending_commit = <<>>,
                                    !.buffer = spy_next(r.buffer),
                                    !.uppercase = IF is_uppercase(c)
                                                  THEN saturating_add(self.uppercase, 1)
                                                  ELSE self.uppercase]
                  ELSE [self EXCEPT !.typ = r.typ, !.pending_commit = <<>>, !.done = TRUE],
         ret |-> c,
         committed |-> { self.pending_commit[i] : i \in 1..Len(self.pending_commit) }]

-----------------------------------------------------------------------------
(* Censor::analysis *)

U16_MAX == 65535

\* mutant of usize_saturating_add: the addition wraps around usize::MAX
usize_wrapping_add(x, n) == IF x > USIZE_MAX - n THEN x - (USIZE_MAX - n) - 1 ELSE x + n

usize_saturating_add(x, n) == IF x > USIZE_MAX - n THEN USIZE_MAX ELSE x + n

\* the first operand whatever the second is
Max2_first(a, b) == a

Max2(a, b) == IF a >= b THEN a ELSE b
Min2(a, b) == IF a <= b THEN a ELSE b

\* mutant of too_short: only inputs of up to four characters are too short
too_short_under_four(self) == self.last_pos < 4

\* too short to have spam or self-censoring
too_short(self) == self.last_pos < 6

\* mutant of severely_spam: the length is counted in characters, not by index
severely_spam_from_twenty_characters(percent_spam, last_pos) == percent_spam >= 70 /\ last_pos >= 19

\* mutant of severely_spam: the length alone decides
severely_spam_by_length_alone(percent_spam, last_pos) == last_pos >= 20

\* the first row of the spam table
severely_spam(percent_spam, last_pos) == percent_spam >= 70 /\ last_pos >= 20

\* total opportunities for spam and self censoring, as u16
total(last_pos) == Min2(usize_saturating_add(last_pos, 6), U16_MAX)

\* total spam, as u16
spam_count(self) ==
    Max2(Max2(Max2(self.uppercase, self.repetitions), self.gibberish \div 2), self.replacements)

safe_self_censoring_and_spam_detection(self) ==
    LET safe == IF self.safe THEN SAFE ELSE NONE
        percent_spam == (100 * spam_count(self)) \div total(self.last_pos)
        percent_self_censoring == (100 * self.self_censoring) \div total(self.last_pos)
        spam == IF severely_spam(percent_spam, self.last_pos) THEN SPAM \cap SEVERE
                ELSE IF percent_spam >= 50 /\ self.last_pos >= 10 THEN SPAM \cap MODERATE
                ELSE IF percent_spam >= 30 THEN SPAM \cap MILD
                ELSE NONE
        self_censoring == IF ~self.ignore_self_censoring /\ percent_self_censoring > 20
                          THEN PROFANE \cap MILD ELSE NONE
    IN  IF too_short(self) THEN safe
        ELSE safe \cup spam \cup self_censoring

analysis(self) == self.typ \cup safe_self_censoring_and_spam_detection(self)

-----------------------------------------------------------------------------
(* The inputs and configurations explored *)

Alphabet == {"a", "i", "b", "A", " ", "*", "@", "!"}

\* an alphabet with an accented and a banned character, for canonicalisation
CanonAlphabet == {"a", "i", "A", A_ACUTE, RLO}

Texts(alphabet) == UNION { [1..n -> alphabet] : n \in 0..MaxLen }

Configurations == {"default", "ignore_false_positives", "censor_first_character", "censor_threshold"}

configure(self, configuration) ==
    CASE configuration = "default" -> self
      [] configuration = "ignore_false_positives" -> with_ignore_false_positives(self, TRUE)
      [] configuration = "censor_first_character" -> with_censor_first_character_threshold(self, ANY)
      [] configuration = "censor_threshold" -> with_censor_threshold(self, SEXUAL)

\* a fresh Censor over t with the options of self
with_options_of(self, t) ==
    with_censor_replacement(
      with_censor_first_character_threshold(
        with_ignore_self_censoring(
          with_ignore_false_positives(
            with_censor_threshold(new(t), self.censor_threshold),
            self.ignore_false_positives),
          self.ignore_self_censoring),
        self.censor_first_character_threshold),
      self.censor_replacement)

-----------------------------------------------------------------------------
(* The state machine: censor() drives next() until it returns None *)

\* no method of the Censor has been called yet; nothing is probed
NoCall == [call |-> "none", panicked |-> FALSE, returned |-> <<>>, began |-> NoIndex]
NoProbe == [self |-> new(<<>>), result |-> NONE, scored |-> FALSE]

\* the caller and the probe take no part
Idle == UNCHANGED <<api, probe, added>>

InitOver(alphabet) ==
    /\ text \in Texts(alphabet)
    /\ \E configuration \in Configurations : censor = configure(new(text), configuration)
    /\ out = <<>>
    /\ committed = {}
    /\ cancelled = {}
    /\ streamed = 0
    /\ safe_hit = NoIndex
    /\ reordered = FALSE
    /\ pass = 1
    /\ first_out = <<>>
    /\ twin = censor
    /\ twin_out = <<>>
    /\ api = NoCall
    /\ probe = NoProbe
    /\ added = {}

Init == InitOver(Alphabet)

InitCanon == InitOver(CanonAlphabet)

emit(o, ret) == IF ret = NoChar THEN o ELSE Append(o, ret)

\* history written by an iteration of the loop
Record(r) ==
    /\ committed' = committed \cup r.committed
    /\ cancelled' = cancelled \cup r.cancelled
    /\ streamed' = IF r.ret = NoChar THEN streamed ELSE streamed + 1
    /\ safe_hit' = IF r.safe_terminal THEN r.self.last_pos ELSE safe_hit

\* an iteration of the loop for a character of the input
NextChar ==
    /\ ~chars_exhausted(censor)
    /\ LET raw_c == chars_item(censor)
           self == chars_next(censor)
       IN \E ord \in Orders(ordered_matches(self, raw_c)) :
            LET r == loop_body(self, raw_c, ord) IN
            /\ censor' = r.self
            /\ out' = emit(out, r.ret)
            /\ Record(r)
    /\ UNCHANGED <<text, reordered, pass, first_out, twin, twin_out>>

\* the iteration for the space appended once the input is exhausted
NextSpace ==
    /\ chars_exhausted(censor)
    /\ ~censor.space_appended
    /\ LET self == [censor EXCEPT !.space_appended = TRUE]
       IN \E ord \in Orders(ordered_matches(self, " ")) :
            LET r == loop_body(self, " ", ord) IN
            /\ censor' = r.self
            /\ out' = emit(out, r.ret)
            /\ Record(r)
    /\ UNCHANGED <<text, reordered, pass, first_out, twin, twin_out>>

\* next() once the loop is over: commit the pending records, return a buffered
\* character or None
NextFlush ==
    /\ chars_exhausted(censor)
    /\ censor.space_appended
    /\ ~censor.done
    /\ LET r == flush(censor) IN
        /\ censor' = r.self
        /\ out' = emit(out, r.ret)
        /\ committed' = committed \cup r.committed
    /\ UNCHANGED <<text, cancelled, streamed, safe_hit, reordered, pass, first_out, twin, twin_out>>

Next == (NextChar /\ Idle) \/ (NextSpace /\ Idle) \/ (NextFlush /\ Idle)

Spec == Init /\ [][Next]_vars

SpecCanon == InitCanon /\ [][Next]_vars

\* `for c in self`: next() is called again for as long as it returns Some
LiveAlphabet == {"a", "i", " "}
InitLive == InitOver(LiveAlphabet)
SpecLive == InitLive /\ [][Next]_vars /\ WF_vars(Next)

-----------------------------------------------------------------------------
(* Censoring the censored output: Censor::new(censored.chars()).censor()    *)
(* with the same options                                                   *)

Recensor ==
    /\ censor.done
    /\ pass = 1
    /\ pass' = 2
    /\ first_out' = out
    /\ text' = out
    /\ censor' = with_options_of(censor, out)
    /\ out' = <<>>
    /\ committed' = {}
    /\ cancelled' = {}
    /\ streamed' = 0
    /\ safe_hit' = NoIndex
    /\ UNCHANGED <<reordered, twin, twin_out>>

NextTwice == (NextChar /\ Idle) \/ (NextSpace /\ Idle) \/ (NextFlush /\ Idle) \/ (Recensor /\ Idle)

SpecTwice == Init /\ [][NextTwice]_vars

-----------------------------------------------------------------------------
(* Two fresh Censors with the same options over the same text, each        *)
(* iterating its match set in an order of its own                          *)

TwinChar ==
    /\ ~chars_exhausted(censor)
    /\ LET raw_c == chars_item(censor)
           self == chars_next(censor)
           other == chars_next(twin)
       IN \E ord \in Orders(ordered_matches(self, raw_c)) :
          \E twin_ord \in Orders(ordered_matches(other, raw_c)) :
            LET r == loop_body(self, raw_c, ord)
                q == loop_body(other, raw_c, twin_ord) IN
            /\ censor' = r.self
            /\ out' = emit(out, r.ret)
            /\ twin' = q.self
            /\ twin_out' = emit(twin_out, q.ret)
            /\ reordered' = (reordered \/ ord # twin_ord)
    /\ UNCHANGED <<text, committed, cancelled, streamed, safe_hit, pass, first_out>>

TwinSpace ==
    /\ chars_exhausted(censor)
    /\ ~censor.space_appended
    /\ LET self == [censor EXCEPT !.space_appended = TRUE]
           other == [twin EXCEPT !.space_appended = TRUE]
       IN \E ord \in Orders(ordered_matches(self, " ")) :
          \E twin_ord \in Orders(ordered_matches(other, " ")) :
            LET r == loop_body(self, " ", ord)
                q == loop_body(other, " ", twin_ord) IN
            /\ censor' = r.self
            /\ out' = emit(out, r.ret)
            /\ twin' = q.self
            /\ twin_out' = emit(twin_out, q.ret)
            /\ reordered' = (reordered \/ ord # twin_ord)
    /\ UNCHANGED <<text, committed, cancelled, streamed, safe_hit, pass, first_out>>

TwinFlush ==
    /\ chars_exhausted(censor)
    /\ censor.space_appended
    /\ ~censor.done
    /\ LET r == flush(censor)
           q == flush(twin) IN
        /\ censor' = r.self
        /\ out' = emit(out, r.ret)
        /\ twin' = q.self
        /\ twin_out' = emit(twin_out, q.ret)
    /\ UNCHANGED <<text, committed, cancelled, streamed, safe_hit, reordered, pass, first_out>>

NextTwin == (TwinChar /\ Idle) \/ (TwinSpace /\ Idle) \/ (TwinFlush /\ Idle)

SpecTwin == Init /\ [][NextTwin]_vars

-----------------------------------------------------------------------------
(* The methods of a Censor as a caller uses them: next() for a partial     *)
(* iteration, censor() and analyze(), in any order on one instance         *)

\* calls that return, per behaviour
MaxCalls == 3

\* input with a banned character: a text may have no canonical character
ApiAlphabet == {"a", "i", RLO}

\* mutant of censor_asserts: censor() only refuses a Censor that is done
censor_asserts_not_done(self) == ~self.done

\* assert!(!self.buffer.index().is_some(), ...)
censor_asserts(self) == index(self.buffer) = NoIndex

\* what a call that returns leaves with the caller: the method, the index()
\* it found when called, and the String or Type returned
Returned(op, began, str, typ) == [op |-> op, began |-> began, str |-> str, typ |-> typ]

returns(a, op, str, typ) ==
    [a EXCEPT !.call = "none",
              !.returned = Append(@, Returned(op, a.began, str, typ))]

CanCall == api.call = "none" /\ ~api.panicked /\ Len(api.returned) < MaxCalls

enters(op) == [call |-> op, panicked |-> FALSE, returned |-> api.returned,
               began |-> index(censor.buffer)]

\* censor(): the assertion, then `for c in self { s.push(c) }`
CallCensor ==
    /\ CanCall
    /\ api' = IF ~censor_asserts(censor) THEN [api EXCEPT !.panicked = TRUE]
              ELSE IF censor.done THEN returns(enters("censor"), "censor", <<>>, NONE)
              ELSE enters("censor")
    /\ UNCHANGED <<text, censor, out, committed, cancelled, streamed, safe_hit, reordered,
                   pass, first_out, twin, twin_out, probe, added>>

\* analyze(): ensure_done, then analysis
CallAnalyze ==
    /\ CanCall
    /\ api' = IF censor.done THEN returns(enters("analyze"), "analyze", <<>>, analysis(censor))
              ELSE enters("analyze")
    /\ UNCHANGED <<text, censor, out, committed, cancelled, streamed, safe_hit, reordered,
                   pass, first_out, twin, twin_out, probe, added>>

\* mutant of censor_and_analyze: the accumulated typ without the scoring
censor_and_typ(censored, self) == <<censored, self.typ>>

\* (censored, self.analysis())
censor_and_analyze(censored, self) == <<censored, analysis(self)>>

\* censor_and_analyze(): censor(), its assertion included, then analysis
CallCensorAndAnalyze ==
    /\ CanCall
    /\ api' = IF ~censor_asserts(censor) THEN [api EXCEPT !.panicked = TRUE]
              ELSE IF censor.done
                   THEN returns(enters("censor_and_analyze"), "censor_and_analyze",
                                censor_and_analyze(<<>>, censor)[1], censor_and_analyze(<<>>, censor)[2])
              ELSE enters("censor_and_analyze")
    /\ UNCHANGED <<text, censor, out, committed, cancelled, streamed, safe_hit, reordered,
                   pass, first_out, twin, twin_out, probe, added>>

\* one call of next() by the caller itself
CallNext ==
    /\ CanCall
    /\ ~censor.done
    /\ api' = enters("next")
    /\ UNCHANGED <<text, censor, out, committed, cancelled, streamed, safe_hit, reordered,
                   pass, first_out, twin, twin_out, probe, added>>

\* the caller after an iteration inside the method it is in: next() returns
\* with a character or None, censor() and analyze() once next() returned None
after_iteration(a, out_before, out_after, self) ==
    IF a.call = "next" /\ (out_after # out_before \/ self.done) THEN returns(a, "next", <<>>, NONE)
    ELSE IF a.call = "censor" /\ self.done THEN returns(a, "censor", out_after, NONE)
    ELSE IF a.call = "analyze" /\ self.done THEN returns(a, "analyze", <<>>, analysis(self))
    ELSE IF a.call = "censor_and_analyze" /\ self.done
         THEN returns(a, "censor_and_analyze",
                      censor_and_analyze(out_after, self)[1], censor_and_analyze(out_after, self)[2])
    ELSE a

Iterates == api.call # "none" /\ probe' = probe /\ added' = added /\ api' = after_iteration(api, out, out', censor')

NextApi ==
    \/ CallCensor
    \/ CallAnalyze
    \/ CallCensorAndAnalyze
    \/ CallNext
    \/ (NextChar /\ Iterates)
    \/ (NextSpace /\ Iterates)
    \/ (NextFlush /\ Iterates)

InitApi ==
    /\ InitOver(ApiAlphabet)

\* `for c in self { s.push(c) }` on its own: next() until it returns None, from
\* a Censor and the characters pushed so far, the match set iterated in one of
\* its orders
RECURSIVE for_c_in_self(_, _)
for_c_in_self(self, s) ==
    IF self.done THEN [self |-> self, s |-> s]
    ELSE IF ~chars_exhausted(self)
         THEN LET raw_c == chars_item(self)
                  read == chars_next(self)
                  ord == CHOOSE o \in Orders(ordered_matches(read, raw_c)) : TRUE
                  r == loop_body(read, raw_c, ord)
              IN for_c_in_self(r.self, emit(s, r.ret))
    ELSE IF ~self.space_appended
         THEN LET appended == [self EXCEPT !.space_appended = TRUE]
                  ord == CHOOSE o \in Orders(ordered_matches(appended, " ")) : TRUE
                  r == loop_body(appended, " ", ord)
              IN for_c_in_self(r.self, emit(s, r.ret))
    ELSE LET r == flush(self) IN for_c_in_self(r.self, emit(s, r.ret))

SpecApi == InitApi /\ [][NextApi]_vars

------------------------------------------------------------------------------
(* Censor::analysis on its own: the scoring applied to a Censor whose pass   *)
(* has ended with given counters                                             *)

\* the positions of the last character read that are scored
LastPositions == {5, 6, 9, 10, 11, 19, 20, 21, 60, 65528, 65529, 65530, USIZE_MAX}

\* the characters read by a pass that ended at last_pos
CharactersRead(last_pos) == IF last_pos = USIZE_MAX THEN 0 ELSE last_pos + 1

\* the values of a counter around the percentages the scoring tests
Levels(last_pos) ==
    LET most == Min2(CharactersRead(last_pos), U8_MAX)
    IN  {0, most} \cup
        { k \in 1..most : \E p \in {21, 30, 50, 70} :
              /\ (100 * k) \div total(last_pos) >= p
              /\ (100 * (k - 1)) \div total(last_pos) < p } \cup
        { k \in 0..most : \E p \in {21, 30, 50, 70} :
              /\ (100 * (k + 1)) \div total(last_pos) >= p
              /\ (100 * k) \div total(last_pos) < p }

\* a Censor at the end of a pass: each counter was incremented at most once
\* per character read (repetitions once more for the appended space,
\* gibberish and replacements never for the first character), and no
\* character counts both as uppercase and as self-censoring
Scored ==
    { [new(<<>>) EXCEPT !.done = TRUE,
                        !.last_pos = s.last_pos,
                        !.uppercase = s.uppercase,
                        !.repetitions = s.signal[1],
                        !.gibberish = s.signal[2],
                        !.replacements = s.signal[3],
                        !.self_censoring = s.self_censoring,
                        !.safe = s.safe,
                        !.ignore_self_censoring = s.ignore_self_censoring,
                        !.typ = s.typ] :
      s \in UNION {
          { t \in [last_pos : {p},
                   uppercase : Levels(p),
                   signal : { <<0, 0, 0>> } \cup
                            { <<k, 0, 0>> : k \in Levels(p) } \cup
                            { <<0, k, 0>> : k \in Levels(p) \ {CharactersRead(p)} } \cup
                            { <<0, 0, k>> : k \in Levels(p) \ {CharactersRead(p)} },
                   self_censoring : Levels(p),
                   safe : BOOLEAN,
                   ignore_self_censoring : BOOLEAN,
                   typ : {NONE, from_weights(<<2, 0, 0, 0, 0>>)}] :
              t.uppercase + t.self_censoring <= CharactersRead(p) } : p \in LastPositions } }

InitScore ==
    /\ text = <<>>
    /\ censor = new(text)
    /\ out = <<>>
    /\ committed = {}
    /\ cancelled = {}
    /\ streamed = 0
    /\ safe_hit = NoIndex
    /\ reordered = FALSE
    /\ pass = 1
    /\ first_out = <<>>
    /\ twin = censor
    /\ twin_out = <<>>
    /\ api = NoCall
    /\ \E self \in Scored : probe = [self |-> self, result |-> NONE, scored |-> FALSE]
    /\ added = {}

\* Censor::analysis
Score ==
    /\ ~probe.scored
    /\ probe' = [probe EXCEPT !.result = analysis(probe.self), !.scored = TRUE]
    /\ UNCHANGED <<text, censor, out, committed, cancelled, streamed, safe_hit, reordered, pass, first_out,
                   twin, twin_out, api, added>>

NextScore == Score

SpecScore == InitScore /\ [][NextScore]_vars

------------------------------------------------------------------------------
(* Long inputs: runs of one character, of the lengths the scoring tests and  *)
(* long enough for a u8 counter to saturate                                  *)

MaxRun == 258
MidRun == 40

\* characters that begin no phrase of the trie, one for each counter
QuietAlphabet == {"X", ";", "$", "*"}

RunAlphabet == QuietAlphabet \cup {"A", "B", "a", "@"}

RunLengths == {0} \cup (4..7) \cup {19, 20, 21} \cup {MidRun}

Run(c, n) == [i \in 1..n |-> c]

Runs == { Run(c, n) : c \in RunAlphabet, n \in RunLengths } \cup { Run(c, MaxRun) : c \in QuietAlphabet }

InitLong ==
    /\ text \in Runs
    /\ \E configuration \in Configurations : censor = configure(new(text), configuration)
    /\ out = <<>>
    /\ committed = {}
    /\ cancelled = {}
    /\ streamed = 0
    /\ safe_hit = NoIndex
    /\ reordered = FALSE
    /\ pass = 1
    /\ first_out = <<>>
    /\ twin = censor
    /\ twin_out = <<>>
    /\ api = NoCall
    /\ probe = NoProbe
    /\ added = {}

SpecLong == InitLong /\ [][Next]_vars

------------------------------------------------------------------------------
(* Censor::reset: a Censor that has processed a text is given a new one,    *)
(* and a fresh Censor with the same options is run beside it                 *)

reset(self, t) ==
    [self EXCEPT !.separate = TRUE,
                 !.typ = NONE,
                 !.uppercase = 0,
                 !.last = NoChar,
                 !.repetitions = 0,
                 !.gibberish = 0,
                 !.replacements = 0,
                 !.self_censoring = 0,
                 !.space_appended = FALSE,
                 !.done = FALSE,
                 !.last_pos = USIZE_MAX,
                 !.matches = {},
                 !.matches_tmp = {},
                 !.pending_commit = <<>>,
                 !.buffer = buffers_from(t)]

ResetAlphabet == {"a", "i", "!"}

Reset ==
    /\ pass = 1
    /\ censor.done
    /\ \E t \in Texts(ResetAlphabet) :
        /\ text' = t
        /\ censor' = reset(censor, t)
        /\ twin' = with_options_of(censor, t)
    /\ pass' = 2
    /\ first_out' = out
    /\ out' = <<>>
    /\ twin_out' = <<>>
    /\ committed' = {}
    /\ cancelled' = {}
    /\ streamed' = 0
    /\ safe_hit' = NoIndex
    /\ UNCHANGED reordered

FirstPass == pass = 1 /\ Idle
SecondPass == pass = 2 /\ Idle

NextReset ==
    \/ (NextChar /\ FirstPass) \/ (NextSpace /\ FirstPass) \/ (NextFlush /\ FirstPass)
    \/ (Reset /\ Idle)
    \/ (TwinChar /\ SecondPass) \/ (TwinSpace /\ SecondPass) \/ (TwinFlush /\ SecondPass)

InitReset == InitOver(ResetAlphabet)

SpecReset == InitReset /\ [][NextReset]_vars

------------------------------------------------------------------------------
(* Type::from_weights and Type::to_weights on their own: the probe holds a  *)
(* weight vector or a mask, converts it, and converts the result back       *)

\* i8 weights around the three severities
Weights == -1..4
WeightVectors == [1..WEIGHT_COUNT -> Weights]

\* a 3-bit field: empty, one-hot, or one of the nested thresholds
FieldValues == {{}, {0}, {1}, {2}, {1, 2}, {0, 1, 2}}
\* masks of five such fields, alone or with a SPAM or the SAFE bit
Masks ==
    { UNION { { b + (i - 1) * WEIGHT_BITS : b \in f[i] } : i \in 1..WEIGHT_COUNT } \cup extra :
        f \in [1..WEIGHT_COUNT -> FieldValues], extra \in {NONE, SPAM \cap SEVERE, SAFE} }

NoWeights == [i \in 1..WEIGHT_COUNT |-> 0]

InitWeights ==
    /\ text = <<>>
    /\ censor = new(text)
    /\ out = <<>>
    /\ committed = {}
    /\ cancelled = {}
    /\ streamed = 0
    /\ safe_hit = NoIndex
    /\ reordered = FALSE
    /\ pass = 1
    /\ first_out = <<>>
    /\ twin = censor
    /\ twin_out = <<>>
    /\ api = NoCall
    /\ added = {}
    /\ \/ \E w \in WeightVectors :
            probe = [given |-> "weights", input |-> w, weights |-> w, typ |-> NONE, calls |-> <<>>]
       \/ \E t \in Masks :
            probe = [given |-> "typ", input |-> t, weights |-> NoWeights, typ |-> t, calls |-> <<>>]

\* Type::from_weights(&weights), on the given vector or on the one converted
FromWeights ==
    /\ \/ probe.given = "weights" /\ probe.calls = <<>>
       \/ probe.given = "typ" /\ probe.calls = <<"to_weights">>
    /\ probe' = [probe EXCEPT !.typ = from_weights(probe.weights),
                              !.calls = Append(probe.calls, "from_weights")]
    /\ UNCHANGED <<text, censor, out, committed, cancelled, streamed, safe_hit, reordered, pass, first_out,
                   twin, twin_out, api, added>>

\* typ.to_weights(), on the given mask or on the one converted
ToWeights ==
    /\ \/ probe.given = "typ" /\ probe.calls = <<>>
       \/ probe.given = "weights" /\ probe.calls = <<"from_weights">>
    /\ probe' = [probe EXCEPT !.weights = to_weights(probe.typ),
                              !.calls = Append(probe.calls, "to_weights")]
    /\ UNCHANGED <<text, censor, out, committed, cancelled, streamed, safe_hit, reordered, pass, first_out,
                   twin, twin_out, api, added>>

NextWeights == FromWeights \/ ToWeights

SpecWeights == InitWeights /\ [][NextWeights]_vars

------------------------------------------------------------------------------
(* add_word (feature "customize"): a word is added to TREE near the         *)
(* beginning of the program, before any Censor is made                      *)

\* TREE.get_mut().add(&word.to_lowercase(), typ)
add_word(tree, word, typ) ==
    tree \cup { [phrase |-> [i \in 1..Len(word) |-> to_lowercase(word[i])], typ |-> typ] }

\* the words added: one of a single character, one of two
AddedWords == { <<"B">>, <<"i", "b">> }
WordAlphabet == {"a", "i", "b", " "}

\* the texts of the alphabet, the texts of its letters one character longer,
\* those that go on with letters after "b" and a space, and those that go on
\* with letters after "ai" and a space
WordTexts ==
    Texts(WordAlphabet) \cup [1..(MaxLen + 1) -> WordAlphabet \ {" "}]
    \cup { <<"b", " ">> \o t : t \in [1..(MaxLen - 1) -> WordAlphabet \ {" "}] }
    \cup { <<"a", "i", " ">> \o t : t \in [1..MaxLen -> WordAlphabet \ {" "}] }

InitWord ==
    /\ text \in WordTexts
    /\ \E word \in AddedWords : added = add_word({}, word, PROFANE \cap SEVERE)
    /\ \E configuration \in Configurations : censor = configure(new(text), configuration)
    /\ out = <<>>
    /\ committed = {}
    /\ cancelled = {}
    /\ streamed = 0
    /\ safe_hit = NoIndex
    /\ reordered = FALSE
    /\ pass = 1
    /\ first_out = <<>>
    /\ twin = censor
    /\ twin_out = <<>>
    /\ api = NoCall
    /\ probe = NoProbe

SpecWord == InitWord /\ [][Next]_vars

------------------------------------------------------------------------------
(* Texts with uppercase letters inside and outside ASCII *)

CaseAlphabet == {"A", "I", "a", OMEGA, " "}
InitCase == InitOver(CaseAlphabet)
SpecCase == InitCase /\ [][Next]_vars

------------------------------------------------------------------------------
(* Gaps inside a word: a letter, a run of spaces or apostrophes, a letter;  *)
(* TREE as compiled, or with a word that is spelled with an apostrophe      *)

GapAlphabet == {" ", "'"}
GapLengths == {1, 2} \cup ((MaxRun - 4)..(MaxRun - 2))
GapTexts ==
    { <<"a">> \o Run(g, n) \o <<"i">> : g \in GapAlphabet, n \in GapLengths }
    \cup { <<"a", "'">> \o Run(" ", n) \o <<"i">> : n \in GapLengths }
    \cup Texts({"a", "i", " ", "'"})

InitGap ==
    /\ text \in GapTexts
    /\ added \in { {}, add_word({}, <<"A", "'", "i">>, PROFANE \cap SEVERE) }
    /\ censor = new(text)
    /\ out = <<>>
    /\ committed = {}
    /\ cancelled = {}
    /\ streamed = 0
    /\ safe_hit = NoIndex
    /\ reordered = FALSE
    /\ pass = 1
    /\ first_out = <<>>
    /\ twin = censor
    /\ twin_out = <<>>
    /\ api = NoCall
    /\ probe = NoProbe

SpecGap == InitGap /\ [][Next]_vars

-----------------------------------------------------------------------------
(* Properties *)

\* the canonical input, case kept, and what the matcher reads of it
Canon == Canonical(text)
spy_cursor == censor.buffer.buffer_start_position
consume_cursor == censor.buffer.buffer_start_position + Len(censor.buffer.buffer)
PendingSet == { censor.pending_commit[i] : i \in 1..Len(censor.pending_commit) }
Finished == censor.done

\* C1 as stated: at every point of a pass the emission (spy) cursor is at or
\* before the start of every match in the frontier and of every pending record,
\* and at or before the consume cursor.
C1_SpyNeverPassesLiveStart ==
    /\ \A m \in censor.matches : spy_cursor <= m.start
    /\ \A p \in PendingSet : spy_cursor <= p.start
    /\ spy_cursor <= consume_cursor

\* C1 amended: the characters emitted inside the matching loop (up to and
\* including the iteration for the appended space) are all before the start of
\* every match in the frontier, and the spy cursor never passes the start of a
\* pending record nor the consume cursor; only the flush after the loop, which
\* first commits every pending record, emits past the matches left in the frontier.
C1_StreamedBeforeLiveStart ==
    /\ \A m \in censor.matches : streamed <= m.start
    /\ \A p \in PendingSet : spy_cursor <= p.start
    /\ spy_cursor <= consume_cursor
    /\ streamed <= spy_cursor

\* a character was emitted by the loop while a match is in flight and a record is pending
C1_Witness ==
    /\ streamed > 0
    /\ censor.matches # {}
    /\ PendingSet # {}
    /\ ~censor.space_appended

\* the Type of a record is that of its trie node
TypeOf(r) == NodeTyp(r.node)
Censored(r) == is(TypeOf(r), censor.censor_threshold)
CensorsFirst(r) == is(TypeOf(r), censor.censor_first_character_threshold)

C3_OutputIsCanonicalOrReplacement ==
    \A p \in 1..Len(out) :
        /\ out[p] \in {Canon[p], censor.censor_replacement}
        /\ (\A r \in committed : Censored(r) => ~(r.start <= p - 1 /\ p - 1 <= r.end))
              => out[p] = Canon[p]

\* a pass ended in which a record was cancelled, or committed below the
\* threshold, and the text with an upper-case letter came out unchanged
C3_Witness ==
    /\ Finished
    /\ out = Canon
    /\ \E p \in 1..Len(out) : is_ascii_uppercase(out[p])
    /\ \/ cancelled # {}
       \/ \E r \in committed : ~Censored(r)

\* the input with its banned characters dropped and its accents removed,
\* written down character by character
RECURSIVE Stripped(_)
Stripped(t) ==
    IF t = <<>> THEN <<>>
    ELSE IF Head(t) = RLO THEN Stripped(Tail(t))
    ELSE IF Head(t) = A_ACUTE THEN <<"a">> \o Stripped(Tail(t))
    ELSE <<Head(t)>> \o Stripped(Tail(t))

\* C4: the censored stream yields one output character per canonical input
\* character (nonspacing marks and banned characters removed), each canonical
\* position once and in increasing order: the n-th character returned is the
\* one of canonical position n, as it is or replaced, the stream ends after
\* the last canonical position, and the appended space is never returned.
C4_OneOutputPerCanonicalCharacter ==
    /\ Len(out) = spy_cursor
    /\ Len(out) <= Len(Stripped(text))
    /\ \A p \in 1..Len(out) : out[p] \in {Stripped(text)[p], censor.censor_replacement}
    /\ Finished => Len(out) = Len(Stripped(text))

\* a pass ended over a text with an accented and a banned character, part of
\* which was censored
C4_Witness ==
    /\ Finished
    /\ \E i, j \in 1..Len(text) : text[i] = RLO /\ text[j] = A_ACUTE
    /\ \E r \in committed : Censored(r)
    /\ Len(out) < Len(text)

\* the canonical input as the matcher reads it
LowerCanon == [p \in 1..Len(Canon) |-> to_lowercase(Canon[p])]

\* the phrases whose terminals cancel: the false positives and the safe phrases
Anchors == FalsePositivesTxt \cup SafeTxt

\* the ranges [a, t] of canonical positions that literally hold an anchor
Occurrences ==
    LET lc == LowerCanon IN
    UNION { { <<a, a + Len(ph) - 1>> :
                a \in { x \in 0..(Len(lc) - Len(ph)) : SubSeq(lc, x + 1, x + Len(ph)) = ph } } :
            ph \in Anchors }

\* C5: with ignore_false_positives false, when the input literally holds a
\* false-positive anchor or a safe phrase at canonical positions [a, t], a
\* flagged match with start >= a whose terminal is reached at or before t is
\* never committed and is no longer pending once position t has been read; a
\* pass in which nothing was committed leaves the text and the accumulated
\* type untouched.
C5_AnchorCancelsInnerMatches ==
    ~censor.ignore_false_positives =>
        /\ LET occurrences == Occurrences IN
           \A o \in occurrences :
            /\ \A r \in committed : ~(r.start >= o[1] /\ r.end <= o[2])
            /\ (censor.last_pos # USIZE_MAX /\ censor.last_pos >= o[2]) =>
                  \A r \in PendingSet : ~(r.start >= o[1] /\ r.end <= o[2])
        /\ (Finished /\ committed = {}) => (censor.typ = NONE /\ out = Canon)

\* a pass ended in which a flagged match inside an anchor was cancelled and
\* nothing was censored
C5_Witness ==
    /\ Finished
    /\ ~censor.ignore_false_positives
    /\ \E o \in Occurrences : \E r \in cancelled :
          r.start >= o[1] /\ r.end <= o[2] /\ is(TypeOf(r), censor.censor_threshold)
    /\ out = Canon
    /\ censor.typ = NONE

\* what censor_and_analyze returns for a safe phrase: SAFE, no category, text
\* unchanged
SafePhraseOutcome ==
    /\ is(analysis(censor), SAFE)
    /\ isnt(analysis(censor), ANY)
    /\ out = Canon

ReadAfter(p) == { q \in 0..(Len(Canon) - 1) : p < q /\ censor.last_pos # USIZE_MAX /\ q <= censor.last_pos }

\* C7: the analysis includes SAFE only if a match with start 0 and spaces 0
\* reached a SAFE terminal (safe_hit is the position read in the latest step
\* that did) and every real character read in a later step is '!', '.' or '?'.
C7_SafeOnlyFromUnbrokenPrefix ==
    is(analysis(censor), SAFE) =>
        /\ safe_hit # NoIndex
        /\ ~censor.ignore_false_positives
        /\ \A q \in ReadAfter(safe_hit) : LowerCanon[q + 1] \in {"!", ".", "?"}

\* a pass that reached a safe terminal from position 0 and then read more
\* characters, all of them '!', '.' or '?', ended with SAFE
C7_Witness ==
    /\ Finished
    /\ safe_hit # NoIndex
    /\ ReadAfter(safe_hit) # {}
    /\ is(analysis(censor), SAFE)

\* C8: if the input holds a flagged terminal that is matched from position 0
\* to the last input character (a record with start 0 and end at the last
\* canonical position was committed), the analysis does not include SAFE.
C8_NoSafeWithFullFlaggedMatch ==
    (/\ Finished
     /\ \E r \in committed :
          r.start = 0 /\ r.end = Len(Canon) - 1 /\ is(TypeOf(r), ANY))
        => ~is(analysis(censor), SAFE)

\* C9: two fresh Censors with identical options over the same input, whatever
\* the order in which each iterates its match set and appends to
\* pending_commit, return the same characters call by call and, once done,
\* the same analysis.
C9_TwinsAgree ==
    /\ out = twin_out
    /\ (censor.done /\ twin.done) => analysis(censor) = analysis(twin)

\* both passes ended after a step in which the two iterated their matches in
\* different orders, and something was censored
C9_Witness ==
    /\ censor.done /\ twin.done
    /\ reordered
    /\ censor.pending_commit = <<>>
    /\ is(censor.typ, ANY)
    /\ \E p \in 1..Len(out) : out[p] # Canon[p]

\* C10: censoring is a fixed point when the replacement character is part of
\* no flagged phrase: censoring the censored output with the same options
\* returns it unchanged.
C10_CensorIsFixedPoint ==
    (pass = 2 /\ Finished /\ \A l \in ProfanityCsv : \A i \in 1..Len(l.phrase) :
                                 l.phrase[i] # censor.censor_replacement)
        => out = first_out

\* C11: censor() panics, before emitting anything, whenever a canonical
\* character has already been consumed (index() is not None): no censor()
\* call proceeds or returns that found a character consumed, and a panic
\* happened only when one was; analyze() called after censor() on the same
\* instance returns the analysis of the completed pass.
C11_CensorPanicsOnceConsumed ==
    /\ api.panicked => index(censor.buffer) # NoIndex
    /\ api.call = "censor" => api.began = NoIndex
    /\ \A i \in 1..Len(api.returned) :
          api.returned[i].op = "censor" => api.returned[i].began = NoIndex
    /\ \A i, j \in 1..Len(api.returned) :
          (i < j /\ api.returned[i].op = "censor" /\ api.returned[j].op = "analyze")
              => (censor.done /\ api.returned[j].typ = analysis(censor))

\* censor() returned a censored text, analyze() then returned its analysis, and
\* a second censor() panicked
C11_Witness ==
    /\ api.panicked
    /\ Len(api.returned) = 2
    /\ api.returned[1].op = "censor" /\ api.returned[1].str = out /\ out # Canon
    /\ api.returned[2].op = "analyze" /\ is(api.returned[2].typ, PROFANE)

\* the scoring as the table states it: the signal, the two percentages and
\* the first row that matches
SpamSignal(self) ==
    CHOOSE m \in {self.uppercase, self.repetitions, self.gibberish \div 2, self.replacements} :
        \A x \in {self.uppercase, self.repetitions, self.gibberish \div 2, self.replacements} : m >= x
Total(self) == IF self.last_pos >= 65535 - 6 THEN 65535 ELSE self.last_pos + 6
PercentSpam(self) == (100 * SpamSignal(self)) \div Total(self)
PercentSelfCens(self) == (100 * self.self_censoring) \div Total(self)
SpamRow(self) ==
    CASE PercentSpam(self) >= 70 /\ self.last_pos >= 20 -> SPAM \cap SEVERE
      [] PercentSpam(self) >= 50 /\ self.last_pos >= 10
         /\ ~(PercentSpam(self) >= 70 /\ self.last_pos >= 20) -> SPAM \cap MODERATE
      [] PercentSpam(self) >= 30
         /\ ~(PercentSpam(self) >= 50 /\ self.last_pos >= 10)
         /\ ~(PercentSpam(self) >= 70 /\ self.last_pos >= 20) -> SPAM \cap MILD
      [] OTHER -> NONE

\* C12: after a pass with last_pos >= 6 the analysis is typ, the first row of
\* the spam table that matches percent = 100 * signal / total (truncating,
\* total = min(last_pos + 6, 65535), signal = max(uppercase, repetitions,
\* gibberish / 2, replacements)), PROFANE & MILD exactly when self-censoring
\* is not ignored and its percentage exceeds 20, and SAFE exactly when the
\* safe flag is set, all or-ed together.
C12_ScoringFollowsTheTable ==
    (probe.scored /\ probe.self.last_pos >= 6) =>
        probe.result =
            probe.self.typ
            \cup SpamRow(probe.self)
            \cup (IF ~probe.self.ignore_self_censoring /\ PercentSelfCens(probe.self) > 20
                  THEN PROFANE \cap MILD ELSE NONE)
            \cup (IF probe.self.safe THEN SAFE ELSE NONE)

\* a scored pass of 21 characters whose repetitions put it in the severe row
\* and whose self-censoring adds PROFANE & MILD to an empty typ
C12_Witness ==
    /\ probe.scored
    /\ probe.self.last_pos = 20
    /\ probe.self.typ = NONE
    /\ probe.self.uppercase < probe.self.repetitions
    /\ probe.result = (SPAM \cap SEVERE) \cup (PROFANE \cap MILD) \cup SAFE

DefaultOptions == with_options_of(censor, text) = new(text)

\* the runs of n uppercase characters
UppercaseRuns(n) == { Run(c, n) : c \in { x \in RunAlphabet : is_ascii_uppercase(x) } }

C15_FourReplacementsAreProfane ==
    (Finished /\ text = Run("*", 4) /\ ~censor.ignore_self_censoring /\ censor.censor_replacement = "*")
        => is(analysis(censor), PROFANE)

\* C16: after reset(text) on a Censor that has processed an earlier text, the
\* censored string and the analysis are those of a freshly constructed Censor
\* with the same options over text: nothing of the earlier pass remains.
C16_ResetIsLikeNew ==
    (pass = 2 /\ censor.done /\ twin.done) =>
        /\ out = twin_out
        /\ analysis(censor) = analysis(twin)

\* C17: with ignore_false_positives true no pending record is ever cancelled,
\* so that every record appended to pending_commit has been committed when the
\* pass ends, and the safe flag is never set: the analysis never includes SAFE.
C17_NothingCancelledNothingSafe ==
    censor.ignore_false_positives =>
        /\ cancelled = {}
        /\ ~censor.safe
        /\ Finished => (censor.pending_commit = <<>> /\ isnt(analysis(censor), SAFE))

\* the safe phrase "aai" with the option set: the flagged "ai" inside it was
\* committed, from the first "a" too, whose repetition is tolerated, and
\* censored, and the phrase did not make the input safe
C17_Witness ==
    /\ Finished
    /\ censor.ignore_false_positives
    /\ text = <<"a", "a", "i">>
    /\ \E r \in committed : Censored(r) /\ r.start = 1 /\ r.end = 2
    /\ out = <<"a", "*", "*">>
    /\ is(analysis(censor), PROFANE)

\* the canonical characters read by the matcher and not yet emitted
Lookahead == Len(censor.buffer.buffer)

\* the longest phrase of the trie, and the gaps after which a type of any
\* severity is scaled to nothing
TrieDepth == CHOOSE d \in { Len(e.phrase) : e \in TreeEntries } : \A e \in TreeEntries : Len(e.phrase) <= d
ToleratedGaps == WEIGHT_BITS

\* what the trie alone would allow: every character of the longest phrase
\* followed by the longest tolerated run of gaps
TrieBound == TrieDepth * (ToleratedGaps + 1)

\* the runs of a character that begins a phrase of the trie
PhraseRuns == { Run(c, n) : c \in { x \in RunAlphabet : HasChild(Root, to_lowercase(x))
                                        \/ (has_replacement(x) /\ HasChild(Root, REPLACEMENTS[x][1])) },
                            n \in RunLengths }

LiveStarts == { m.start : m \in censor.matches }

Counters(self) ==
    <<self.uppercase, self.repetitions, self.gibberish, self.replacements, self.self_censoring>>

\* C20: during a pass each of uppercase, repetitions, gibberish, replacements
\* and self_censoring never decreases, changes by at most one in a step, and
\* stays at 255 once there: an increment at 255 does not wrap it to 0.
C20_CountersSaturate ==
    [][\A i \in 1..5 :
          /\ Counters(censor')[i] \in {Counters(censor)[i], Counters(censor)[i] + 1}
          /\ Counters(censor')[i] <= U8_MAX
          /\ Counters(censor)[i] = U8_MAX => Counters(censor')[i] = U8_MAX]_vars

\* a run of MaxRun uppercase characters has been read: uppercase was
\* incremented MaxRun times and repetitions MaxRun - 1 times, more than 255
C20_Witness ==
    /\ Finished
    /\ text = Run("X", MaxRun)
    /\ MaxRun - 1 > U8_MAX
    /\ censor.uppercase = U8_MAX
    /\ censor.repetitions = U8_MAX

\* a freshly constructed Censor with the options and the input of censor, and
\* its whole pass
Fresh == with_options_of(censor, text)
FreshPass == for_c_in_self(Fresh, <<>>)

\* C21: censor_and_analyze() returns the pair of what censor() and what
\* analyze() return on fresh instances with the same options and input: the
\* analysis is that of the completed pass, every pending record committed
\* and every counter final.
C21_CensorAndAnalyzeIsCensorThenAnalyze ==
    \A i \in 1..Len(api.returned) :
        api.returned[i].op = "censor_and_analyze" =>
            /\ api.returned[i].str = FreshPass.s
            /\ api.returned[i].typ = analysis(FreshPass.self)
            /\ censor.done
            /\ censor.pending_commit = <<>>
            /\ Counters(censor) = Counters(FreshPass.self)
            /\ api.returned[i].typ = analysis(censor)

\* the safe phrase "aai" went through censor_and_analyze() on a fresh
\* instance: the scoring's SAFE is in the analysis returned
C21_Witness ==
    /\ Len(api.returned) = 1
    /\ api.returned[1].op = "censor_and_analyze"
    /\ text = <<"a", "a", "i">>
    /\ ~censor.ignore_false_positives
    /\ api.returned[1].str = text
    /\ api.returned[1].typ = SAFE
    /\ cancelled # {}

\* C22: for the empty input censor() returns the empty string and the analysis
\* is empty: no SAFE, no flagged category, no spam; the sentinel last_pos of a
\* pass that read no character yields no spam and no self-censoring.
C22_EmptyInputIsEmpty ==
    (Finished /\ Canon = <<>>) =>
        /\ out = <<>>
        /\ analysis(censor) = NONE
        /\ censor.last_pos = USIZE_MAX

\* the pass over the empty text has ended; its last_pos is not below 6, so
\* the scoring was computed, over counters that are all zero
C22_Witness ==
    /\ Finished
    /\ text = <<>>
    /\ ~too_short(censor)
    /\ censor.space_appended
    /\ Counters(censor) = <<0, 0, 0, 0, 0>>
    /\ safe_self_censoring_and_spam_detection(censor) = NONE

\* the six categories that carry a severity
Categories == {PROFANE, OFFENSIVE, SEXUAL, MEAN, EVASIVE, SPAM}

\* C23: masking with MILD, MODERATE or SEVERE selects one severity bit in each
\* 3-bit field, so the three masks of a category are pairwise disjoint, and a
\* scoring result of SPAM & MILD (PROFANE & MILD) does not satisfy
\* is(SPAM & SEVERE) (is(PROFANE & SEVERE)).
C23_SeverityMasksAreOneHot ==
    (Finished /\ ~too_short(censor)
       /\ (SpamRow(censor) = SPAM \cap MILD \/ PercentSelfCens(censor) > 20)) =>
        /\ \A C \in Categories :
              /\ (C \cap MILD) \cap (C \cap MODERATE) = NONE
              /\ (C \cap MILD) \cap (C \cap SEVERE) = NONE
              /\ (C \cap MODERATE) \cap (C \cap SEVERE) = NONE
        /\ SpamRow(censor) = SPAM \cap MILD => isnt(analysis(censor), SPAM \cap SEVERE)
        /\ (censor.typ = NONE /\ ~censor.ignore_self_censoring /\ PercentSelfCens(censor) > 20)
              => isnt(analysis(censor), PROFANE \cap SEVERE)

\* the masks of the five fields whose every field is zero or one-hot
OneHotMasks ==
    { t \in Masks : /\ t \subseteq 0..(WEIGHT_COUNT * WEIGHT_BITS - 1)
                    /\ \A i \in 0..(WEIGHT_COUNT - 1) : Cardinality(FieldBits(t, i)) <= 1 }

\* C24: from_weights turns each of the five weights into nothing (0 or
\* less), the mild bit (1), the moderate bit (2) or the severe bit (3 or
\* more) of its own field and sets no SPAM or SAFE bit; to_weights gives a
\* weight vector of 0..3 back from its mask, and from_weights gives a mask of
\* five zero or one-hot fields back from its weights.
C24_WeightsRoundTrip ==
    /\ (probe.given = "weights" /\ probe.calls = <<"from_weights">>) =>
          /\ \A i \in 1..WEIGHT_COUNT :
                FieldBits(probe.typ, i - 1) =
                    CASE probe.input[i] >= 3 -> {2}
                      [] probe.input[i] = 2 -> {1}
                      [] probe.input[i] = 1 -> {0}
                      [] OTHER -> {}
          /\ probe.typ \cap (SPAM \cup SAFE) = {}
          /\ probe.typ \subseteq ANY
    /\ (probe.given = "weights" /\ probe.calls = <<"from_weights", "to_weights">>
          /\ probe.input \in [1..WEIGHT_COUNT -> 0..3]) =>
          probe.weights = probe.input
    /\ (probe.given = "typ" /\ probe.calls = <<"to_weights", "from_weights">>
          /\ probe.input \in OneHotMasks) =>
          probe.typ = probe.input

\* a vector of all four weights that went to its mask and back
C24_Witness ==
    /\ probe.given = "weights"
    /\ probe.calls = <<"from_weights", "to_weights">>
    /\ probe.input = <<3, 0, 2, 1, 3>>
    /\ probe.typ = {2, 7, 9, 14}
    /\ probe.weights = probe.input

\* C25 as stated: every record of pending_commit starts strictly before its
\* end, and ends at or before the position of the character read last.
C25_PendingStartsBeforeItsEnd ==
    \A P \in PendingSet : P.start < P.end /\ P.end <= censor.last_pos

\* C25, amended: every record of pending_commit starts at or before its end
\* and ends at or before the position of the character read last; it spans at
\* least the characters of its phrase, so it starts strictly before its end
\* unless its phrase is a single character.
C25_PendingStartsAtOrBeforeItsEnd ==
    \A P \in PendingSet :
        /\ P.start <= P.end
        /\ P.end <= censor.last_pos
        /\ censor.last_pos # USIZE_MAX
        /\ P.end - P.start + 1 >= Len(P.node)
        /\ P.start = P.end => Len(P.node) = 1

\* the record of a one-character word is still pending while a later
\* character has been read
C25_Witness ==
    \E P \in PendingSet :
        /\ P.start = P.end
        /\ P.node = <<"b">>
        /\ P.end < censor.last_pos
        /\ \E e \in added : e.phrase = P.node

\* the iteration of the loop that the next call of next() begins with, for
\* one iteration order (drain_start and safety_end do not depend on it); the
\* loop is over once the appended space has been read
LoopGoesOn == ~chars_exhausted(censor) \/ ~censor.space_appended
NextIteration ==
    LET self == IF ~chars_exhausted(censor) THEN chars_next(censor)
                ELSE [censor EXCEPT !.space_appended = TRUE]
        raw_c == IF ~chars_exhausted(censor) THEN chars_item(censor) ELSE " "
    IN loop_body(self, raw_c, CHOOSE ord \in Orders(ordered_matches(self, raw_c)) : TRUE)

\* C26: once a record has been committed, no later iteration of the pass
\* computes a drain_start at or before its start (nor at or before its end):
\* no later false positive or safe phrase could have cancelled it.
C26_CommittedIsBeyondLaterDrains ==
    (LoopGoesOn /\ NextIteration.drain_start # NoIndex) =>
        \A P \in committed : NextIteration.drain_start > P.start /\ NextIteration.drain_start > P.end

\* a record was committed early and the next iteration reaches a false
\* positive or safe terminal
C26_Witness ==
    /\ LoopGoesOn
    /\ committed # {}
    /\ NextIteration.drain_start # NoIndex
    /\ \E P \in committed : P.end < NextIteration.drain_start

\* the records that the next iteration can cancel: those pending before it and
\* those it appends
Cancellable == PendingSet \cup { NextIteration.pushed[i] : i \in 1..Len(NextIteration.pushed) }
StillPending(r) == { r.self.pending_commit[i] : i \in 1..Len(r.self.pending_commit) }

\* C27 as stated: with false positives not ignored, a match that descends
\* into a terminal of empty type lowers drain_start to its start or below and
\* every pending record starting at or after its start is cancelled in that
\* iteration, whatever the spaces of the match.
C27_AnchorCancelsWhateverTheSpaces ==
    (LoopGoesOn /\ ~censor.ignore_false_positives) =>
        \A nm \in NextIteration.terminals :
            NodeTyp(nm.node) = NONE =>
                /\ NextIteration.drain_start # NoIndex
                /\ NextIteration.drain_start <= nm.start
                /\ \A P \in Cancellable : P.start >= nm.start => P \in NextIteration.cancelled

\* C27, amended: a match that descends with spaces 0 into a terminal without a
\* flagged category (a false positive or a safe phrase), false positives not
\* being ignored, lowers drain_start to its start or below, and every pending
\* record starting at or after its start is cancelled in that iteration; when
\* every such terminal is reached with spaces above 0, or false positives are
\* ignored, there is no drain_start and nothing is cancelled.
C27_AnchorCancelsWithoutSpaces ==
    LoopGoesOn =>
        /\ \A nm \in NextIteration.terminals :
              (~is(NodeTyp(nm.node), ANY) /\ nm.spaces = 0 /\ ~censor.ignore_false_positives) =>
                  /\ NextIteration.drain_start # NoIndex
                  /\ NextIteration.drain_start <= nm.start
                  /\ \A P \in Cancellable : P.start >= nm.start =>
                        P \in NextIteration.cancelled /\ P \notin StillPending(NextIteration)
        /\ (\A nm \in NextIteration.terminals :
                is(NodeTyp(nm.node), ANY) \/ nm.spaces > 0 \/ censor.ignore_false_positives) =>
              NextIteration.drain_start = NoIndex /\ NextIteration.cancelled = {}

\* "b@i" was censored with false positives not ignored: the false positive
\* "bai" was reached with spaces 1 and the match of "ai" inside it, appended in
\* the same iteration, was committed, not cancelled
C27_Witness ==
    /\ Finished
    /\ text = <<"b", "@", "i">>
    /\ ~censor.ignore_false_positives
    /\ cancelled = {}
    /\ \E P \in committed : P.node = <<"a", "i">> /\ P.start = 1 /\ P.end = 2 /\ P.spaces = 1

PendingOf(self) == { self.pending_commit[i] : i \in 1..Len(self.pending_commit) }

\* what holds once next() has returned None
Drained ==
    /\ censor.space_appended
    /\ chars_exhausted(censor)
    /\ censor.pending_commit = <<>>
    /\ censor.matches_tmp = {}
    /\ censor.buffer.buffer = <<>>
    /\ Len(out) = Len(Canon)
    /\ flush(censor) = [self |-> censor, ret |-> NoChar, committed |-> {}]

\* C28: when next() is called again and again, it eventually returns None
\* with done set, and done stays set; the appended space is read by one
\* iteration only, after the last character of the input; from then on no
\* record is cancelled and every record still pending is committed by the
\* next call; when done is set nothing is pending, every canonical character
\* has been emitted, and a further call of next() reads nothing, changes
\* nothing and returns None.
C28_NextTerminates ==
    /\ <>[]Finished
    /\ [](Finished => Drained)
    /\ [][ /\ censor.space_appended => censor'.space_appended
           /\ (~censor.space_appended /\ censor'.space_appended) =>
                 chars_exhausted(censor) /\ censor'.last = " "
           /\ censor.space_appended =>
                 /\ cancelled' = cancelled
                 /\ PendingOf(censor) \subseteq committed'
                 /\ censor'.pending_commit = <<>> ]_vars

\* the pass over "ai " ended: the record of "ai" was still pending after the
\* iteration of the appended space and was committed by the call after it
C28_Witness ==
    /\ Finished
    /\ Drained
    /\ text = <<"a", "i", " ">>
    /\ cancelled = {}
    /\ \E P \in committed : P.node = <<"a", "i">> /\ P.space_after
    /\ censor.typ # NONE
    /\ Len(out) = 3

\* what the committed records contribute: the type of each one's node,
\* degraded by its spaces
Contributions == UNION { ScaleBySpaces(NodeTyp(P.node), P.spaces) : P \in committed }

\* C29: typ never loses a bit during a pass; it is at every moment the union
\* of what the records committed so far contribute, so a cancelled record
\* adds nothing and typ is NONE while no record has been committed; at the
\* end the analysis holds no bit beyond these contributions, the SPAM field,
\* SAFE, and the PROFANE bits of the self-censoring score.
C29_TypIsWhatWasCommitted ==
    /\ [](/\ censor.typ = Contributions
          /\ committed = {} => censor.typ = NONE
          /\ Finished =>
                analysis(censor) \subseteq
                    Contributions \cup SPAM \cup SAFE
                    \cup (IF ~censor.ignore_self_censoring /\ PercentSelfCens(censor) > 20
                          THEN PROFANE ELSE NONE))
    /\ [][censor.typ \subseteq censor'.typ]_vars

\* a pass ended in which one record was cancelled and another was committed,
\* and typ holds nothing of the type of the cancelled one
C29_Witness ==
    /\ Finished
    /\ \E P \in cancelled : NodeTyp(P.node) # NONE /\ NodeTyp(P.node) \cap censor.typ = NONE
    /\ committed # {}
    /\ committed \cap cancelled = {}
    /\ censor.typ # NONE
    /\ censor.typ = Contributions
    /\ analysis(censor) \cap ANY = censor.typ

\* the ASCII uppercase letters among the characters returned
AsciiUppercaseOut == Cardinality({ p \in 1..Len(out) : is_ascii_uppercase(out[p]) })

\* C30: at the end of a pass the uppercase counter is the number of ASCII
\* uppercase letters among the characters returned, at most 255, whether
\* they were returned from inside the loop or after it.
C30_UppercaseCountsAsciiUppercaseOutput ==
    Finished => censor.uppercase = Min2(AsciiUppercaseOut, U8_MAX)

\* the character that the next iteration of the loop is for, and the position
\* it is read at
NextRaw == IF ~chars_exhausted(censor) THEN chars_item(censor) ELSE " "
NextPos == IF ~chars_exhausted(censor) THEN index(chars_next(censor).buffer) ELSE index(censor.buffer)

\* C31: an iteration for an apostrophe leaves every match it keeps as it was
\* and gives every match it produces the spaces of the match it came from,
\* whether that match tolerated the apostrophe or descended through it; an
\* iteration for a space keeps every match that did not start at the position
\* read with its spaces raised by exactly one, 255 staying 255, and produces
\* no other match.
C31_ApostropheIsNoSpace ==
    LoopGoesOn =>
        LET after == NextIteration.self.matches
            spaced(m) == [m EXCEPT !.spaces = Min2(m.spaces + 1, U8_MAX)]
        IN  /\ NextRaw = "'" =>
                /\ \A m \in censor.matches : m.start # NextPos => m \in after
                /\ \A n \in after : \E m \in censor.matches :
                      /\ n.start = m.start
                      /\ n.spaces = m.spaces
                      /\ n = m \/ (n.node = Child(m.node, "'") /\ n.last = "'")
            /\ NextRaw = " " =>
                /\ \A m \in censor.matches : m.start # NextPos => spaced(m) \in after
                /\ \A n \in after : \E m \in censor.matches : m.start # NextPos /\ n = spaced(m)

\* "a' ... i" with the spaces of the counter's bound and one more: the match
\* of "ai" tolerated the apostrophe and the spaces and was committed with
\* spaces 255, and the word spelled with an apostrophe was not reached
C31_Witness ==
    /\ Finished
    /\ Len(text) = U8_MAX + 4
    /\ text[2] = "'"
    /\ \A p \in 3..(Len(text) - 1) : text[p] = " "
    /\ \E P \in committed : P.node = <<"a", "i">> /\ P.start = 0 /\ P.spaces = U8_MAX
    /\ \A P \in committed : P.node # <<"a", "'", "i">>

\* the input ends after position p, or the character after it is skippable
FollowedBySkippable(p) ==
    p + 1 = Len(Canon) \/ (p + 1 < Len(Canon) /\ skippable_of(to_lowercase(Canon[p + 2])))

\* C32: the records an iteration appends are all still pending or cancelled
\* when it ends, none is committed by it; and every committed record was
\* committed with space_after true exactly when the input ended at its end or
\* the character after its end is skippable.
C32_CommittedAfterTheNextCharacter ==
    /\ LoopGoesOn =>
          \A i \in 1..Len(NextIteration.pushed) :
              /\ NextIteration.pushed[i] \notin NextIteration.committed
              /\ NextIteration.pushed[i] \in StillPending(NextIteration) \cup NextIteration.cancelled
              /\ ~NextIteration.pushed[i].space_after
    /\ \A P \in committed : P.space_after <=> FollowedBySkippable(P.end)

\* in "b ia" the record of the added word "b" was committed by the iteration
\* for "a", two iterations after the one for the space that set its
\* space_after, and the loop is not over
C32_Witness ==
    /\ LoopGoesOn
    /\ text = <<"b", " ", "i", "a">>
    /\ \E P \in committed : P.node = <<"b">> /\ P.end = 0 /\ P.space_after

\* the Censor and pending_commit that retain of the next iteration starts from
BeforeRetain ==
    LET self == IF ~chars_exhausted(censor) THEN chars_next(censor)
                ELSE [censor EXCEPT !.space_appended = TRUE]
    IN [self EXCEPT !.pending_commit =
            mark_space_after(self.pending_commit, skippable_of(NextRaw), self.last_pos)
            \o NextIteration.pushed]

\* retain with the two tests in the other order: early commit first, then
\* cancellation
RECURSIVE retain_commit_first(_, _, _, _, _)
retain_commit_first(self, i, drain_start, safety_end, acc) ==
    IF i > Len(self.pending_commit) THEN acc
    ELSE LET pending == self.pending_commit[i] IN
         IF retain_commits(pending, safety_end)
         THEN LET r == commit(pending, acc.typ, acc.buffer, self.censor_threshold,
                              self.censor_first_character_threshold, self.censor_replacement)
              IN retain_commit_first(self, i + 1, drain_start, safety_end,
                        [acc EXCEPT !.typ = r.typ, !.buffer = r.buffer,
                                    !.committed = @ \cup {pending}])
         ELSE IF retain_cancels(pending, drain_start)
         THEN retain_commit_first(self, i + 1, drain_start, safety_end,
                     [acc EXCEPT !.cancelled = @ \cup {pending}])
         ELSE retain_commit_first(self, i + 1, drain_start, safety_end,
                     [acc EXCEPT !.kept = Append(@, pending)])

RetainStart ==
    [typ |-> BeforeRetain.typ, buffer |-> BeforeRetain.buffer, kept |-> <<>>,
     committed |-> {}, cancelled |-> {}]

\* C33: in no iteration is a pending record both at or after drain_start and
\* ended before safety_end, and retain leaves the same records pending,
\* commits and cancels the same records and gives the same typ and buffer
\* whichever of the two tests comes first.
C33_CancelAndCommitExclude ==
    LoopGoesOn =>
        /\ \A i \in 1..Len(BeforeRetain.pending_commit) :
              ~(/\ retain_cancels(BeforeRetain.pending_commit[i], NextIteration.drain_start)
                /\ retain_commits(BeforeRetain.pending_commit[i], NextIteration.safety_end))
        /\ retain(BeforeRetain, 1, NextIteration.drain_start, NextIteration.safety_end, RetainStart)
             = retain_commit_first(BeforeRetain, 1, NextIteration.drain_start,
                                   NextIteration.safety_end, RetainStart)
        /\ retain(BeforeRetain, 1, NextIteration.drain_start, NextIteration.safety_end, RetainStart).kept
             = NextIteration.self.pending_commit

\* the next iteration commits one pending record and cancels another
C33_Witness ==
    /\ LoopGoesOn
    /\ NextIteration.drain_start # NoIndex
    /\ NextIteration.committed # {}
    /\ NextIteration.cancelled # {}

\* C34: whenever last_pos is not below 6, so that the percentages are
\* computed, total is between 12 and u16::MAX, the conversion of the minimum
\* to u16 loses nothing, and 100 * spam and 100 * self_censoring are at most
\* 25500, which fits 16 bits.
C34_ScoringStaysInSixteenBits ==
    ~too_short(censor) =>
        /\ total(censor.last_pos) \in 12..U16_MAX
        /\ total(censor.last_pos) # 0
        /\ usize_saturating_add(censor.last_pos, 6) <= USIZE_MAX
        /\ spam_count(censor) \in 0..U8_MAX
        /\ 100 * spam_count(censor) <= 25500
        /\ censor.self_censoring \in 0..U8_MAX
        /\ 100 * censor.self_censoring <= 25500
        /\ 25500 <= U16_MAX

\* the empty input was read to its end: last_pos is still the sentinel and
\* the addition saturated
C34_Witness ==
    /\ text = <<>>
    /\ censor.done
    /\ censor.last_pos = USIZE_MAX
    /\ ~too_short(censor)
    /\ total(censor.last_pos) = U16_MAX

====
